---- MODULE Spec2Model ----
(***************************************************************************)
(* Model of the Telegram translator bot (src/bot.py): the language hint    *)
(* detector, the per-message dispatch pipeline (handle_message), the       *)
(* translation client and the health-check endpoint.                       *)
(*                                                                         *)
(* Text is a sequence of Unicode code points.  An Optional[str] value is   *)
(* a sequence of length at most one: <<>> is None and <<s>> is the string  *)
(* s.                                                                      *)
(***************************************************************************)
EXTENDS Integers, Sequences, FiniteSets, TLC

VARIABLES
    \* ---- language hint detector, called on its own ----
    d_pc,                  \* "input" | "returned"
    d_text,                \* argument of detect_language_hint
    d_result,              \* its return value (Optional[str])
    \* ---- handle_message, one incoming update ----
    pc,                    \* position of the handler coroutine
    text,                  \* update.message.text (<<>>: no message / no text)
    chat_type,             \* update.message.chat.type
    message_id,            \* update.message.message_id
    original_text,         \* local original_text
    lang_hint,             \* local lang_hint (Optional[str])
    has_processing_msg,    \* local has_processing_msg
    translated,            \* local translated (Optional[str])
    target_lang_name,      \* local target_lang_name
    branch,                \* the return path the handler took
    calls,                 \* outgoing calls made for this update, in order
    \* ---- health endpoint ----
    TELEGRAM_TOKEN,        \* length of the configured bot token
    DEEPSEEK_API_KEY,      \* length of the configured API key
    consecutive_failures,  \* module-level counter
    h_pc,                  \* position of do_GET
    h_path,                \* self.path
    h_checks,              \* results of the four checks of the cycle
    status_code,           \* local status_code of do_GET
    wire,                  \* what has been written to the client socket
    cycles,                \* outcomes (all_healthy) of the completed cycles
    \* ---- configuration read at import ----
    TARGET_LANGUAGE,       \* os.getenv("TARGET_LANGUAGE", "en")
    \* ---- translate_with_deepseek, called on its own ----
    t_pc,                  \* "idle" | "called" | "returned"
    t_text,                \* argument text
    t_langs,               \* arguments <<source_lang_hint, target_lang>>
    t_resp,                \* what requests.post met
    t_out,                 \* how the call ended
    \* ---- main ----
    m_pc,                  \* position of main
    attempt,               \* loop variable of the retry loop
    slept,                 \* the delays main has slept, in order
    exit_code,             \* status passed to sys.exit (-1: not exiting)
    health_started,        \* start_real_health_server has run
    handlers_registered,   \* the handlers were added to the application
    poll_attempts,         \* calls of application.run_polling
    m_failed,              \* calls of run_polling that raised
    \* ---- the application and the executor while main polls ----
    arrived,               \* updates received so far
    queue,                 \* updates waiting in the update queue
    handling,              \* the update whose handler is running (0: none)
    awaiting,              \* that handler awaits its translation call
    running,               \* translation calls running on worker threads
    completed,             \* translation calls that ran to their end
    in_flight_at_stop,     \* the calls that were running when polling stopped
    \* ---- the health server and its clients ----
    waiting,               \* clients whose GET waits to be accepted
    served,                \* the requests accepted so far, in order, each with
                           \* the position and locals of its do_GET
    messages,              \* messages handled meanwhile
    \* ---- the chat commands ----
    k_pc,                  \* position of the command handler
    k_cmd,                 \* the command being handled
    k_before,              \* the failure counter when the command arrived
    k_reply,               \* what the handler passes to reply_text
    \* ---- the API check of the health endpoint on its own ----
    p_pc,                  \* position of the check cycle
    p_probe,               \* what the probe POST meets
    p_out,                 \* result of check_deepseek_api, probes sent
    p_before               \* the failure counter before the cycle

detectVars == <<d_pc, d_text, d_result>>
msgVars    == <<pc, text, chat_type, message_id, original_text, lang_hint,
                has_processing_msg, translated, target_lang_name, branch, calls>>
healthVars == <<TELEGRAM_TOKEN, DEEPSEEK_API_KEY, consecutive_failures, h_pc,
                h_path, h_checks, status_code, wire, cycles>>
configVars == <<TARGET_LANGUAGE>>
\* the variables none of the pipeline, the health endpoint and the detector
\* writes
clientVars == <<t_pc, t_text, t_langs, t_resp, t_out>>
mainVars   == <<m_pc, attempt, slept, exit_code, health_started,
                handlers_registered, poll_attempts, m_failed>>
poolVars   == <<arrived, queue, handling, awaiting, running, completed,
                in_flight_at_stop>>
serveVars  == <<waiting, served, messages>>
cmdVars    == <<k_pc, k_cmd, k_before, k_reply>>
probeVars  == <<p_pc, p_probe, p_out, p_before>>
restVars   == <<configVars, clientVars, mainVars, poolVars, serveVars, cmdVars,
                probeVars>>
\* what the translation client on its own leaves alone
notClient  == <<detectVars, msgVars, healthVars, configVars, mainVars, poolVars,
                serveVars, cmdVars, probeVars>>
\* what main, the application and the executor leave alone
notMain    == <<detectVars, msgVars, healthVars, configVars, clientVars,
                serveVars, cmdVars, probeVars>>
\* what the health server and its clients leave alone
notServe   == <<TELEGRAM_TOKEN, DEEPSEEK_API_KEY, h_pc, h_path, h_checks,
                status_code, wire, cycles, detectVars, msgVars, configVars,
                clientVars, mainVars, poolVars, cmdVars, probeVars>>
\* what the command handlers leave alone, the health endpoint apart
notCmd     == <<detectVars, msgVars, configVars, clientVars, mainVars, poolVars,
                serveVars, probeVars>>
\* what a check cycle looked at for its API check leaves alone
notProbe   == <<TELEGRAM_TOKEN, DEEPSEEK_API_KEY, h_pc, h_path, h_checks,
                status_code, wire, cycles, detectVars, msgVars, configVars,
                clientVars, mainVars, poolVars, serveVars, cmdVars>>
vars       == <<detectVars, msgVars, healthVars, restVars>>

-----------------------------------------------------------------------------
(* Bounds of the model *)

MaxDetectLen == 4      \* longest text handed to the detector on its own
MaxLen == 3            \* longest incoming message text
MaxCycles == 6         \* health check cycles followed
MaxContentLen == 4     \* longest completion text answered by the API
MaxUpdates == 3        \* updates received while main polls
MaxServed == 4         \* requests accepted by the health server

-----------------------------------------------------------------------------
(* Python values and str methods *)

None == <<>>
Some(s) == <<s>>
\* mutant: only None is falsy
Truthy_not_none(v) == v # None

\* truth value of an Optional[str]: None and "" are falsy
Truthy(v) == v # None /\ v[1] # <<>>

SeqsUpTo(S, n) == UNION {[1..k -> S] : k \in 0..n}

SPACE == 32
SLASH == 47
DQUOTE == 34
SQUOTE == 39

\* str.isspace for the characters of the model
IsSpace(c) == c \in {9, 10, 13, SPACE}

RECURSIVE LStrip(_, _)
LStrip(s, drop) ==
    IF s # <<>> /\ Head(s) \in drop THEN LStrip(Tail(s), drop) ELSE s

RECURSIVE RStrip(_, _)
RStrip(s, drop) ==
    IF s # <<>> /\ s[Len(s)] \in drop
    THEN RStrip(SubSeq(s, 1, Len(s) - 1), drop) ELSE s

\* s.strip(chars)
StripChars(s, drop) == RStrip(LStrip(s, drop), drop)

\* s.strip()
Strip(s) == StripChars(s, {9, 10, 13, SPACE})

\* c.lower(): ASCII upper case to lower case, other characters of the model
\* have no case
LowerChar(c) == IF c >= 65 /\ c <= 90 THEN c + 32 ELSE c

\* s.lower()
Lower(s) == [i \in 1..Len(s) |-> LowerChar(s[i])]

\* positions at which sub occurs in s
Occurrences(sub, s) ==
    {i \in 1..(Len(s) - Len(sub) + 1) : SubSeq(s, i, i + Len(sub) - 1) = sub}

\* sub in s
Contains(sub, s) == Occurrences(sub, s) # {}

\* s.split(sub, 1)[1], defined when sub in s
AfterFirst(sub, s) ==
    LET i == CHOOSE j \in Occurrences(sub, s) :
                 \A k \in Occurrences(sub, s) : j <= k
    IN  SubSeq(s, i + Len(sub), Len(s))

\* s.startswith('/')
StartsWithSlash(s) == s # <<>> /\ s[1] = SLASH

-----------------------------------------------------------------------------
(* Language hint detector *)

CJK_FIRST == 19968     \* U+4E00
CJK_LAST == 40959      \* U+9FFF
ARABIC_FIRST == 1536   \* U+0600
ARABIC_LAST == 1791    \* U+06FF

IsCJK(c) == CJK_FIRST <= c /\ c <= CJK_LAST
\* mutant: the upper end of the range left out
IsArabic_exclusive(c) == ARABIC_FIRST <= c /\ c < ARABIC_LAST

IsArabic(c) == ARABIC_FIRST <= c /\ c <= ARABIC_LAST

tagalog_keywords == {
    <<97, 107, 111>>,                          \* ako
    <<105, 107, 97, 119>>,                     \* ikaw
    <<115, 105, 121, 97>>,                     \* siya
    <<107, 97, 109, 105>>,                     \* kami
    <<107, 97, 121, 111>>,                     \* kayo
    <<115, 105, 108, 97>>,                     \* sila
    <<109, 97, 103, 97, 110, 100, 97>>,        \* maganda
    <<115, 97, 108, 97, 109, 97, 116>>,        \* salamat
    <<112, 97, 97, 108, 97, 109>>,             \* paalam
    <<109, 97, 104, 97, 108>>,                 \* mahal
    <<111, 111>>,                              \* oo
    <<104, 105, 110, 100, 105>>,               \* hindi
    <<107, 117, 109, 117, 115, 116, 97>>,      \* kumusta
    <<109, 97, 98, 117, 116, 105>>,            \* mabuti
    <<112, 97, 110, 103, 97, 108, 97, 110>>,   \* pangalan
    <<97, 110, 111>>,                          \* ano
    <<115, 97, 97, 110>>,                      \* saan
    <<107, 97, 105, 108, 97, 110>>,            \* kailan
    <<112, 111>>,                              \* po
    <<111, 112, 111>>,                         \* opo
    <<104, 105, 110, 100, 105, 32, 112, 111>>, \* hindi po
    <<115, 105, 103, 101>>,                    \* sige
    <<116, 105, 110, 103, 110, 97, 110>>,      \* tingnan
    <<109, 97, 114, 97, 109, 105, 110, 103>>   \* maraming
}

HasCJK(s) == \E i \in 1..Len(s) : IsCJK(s[i])
HasArabic(s) == \E i \in 1..Len(s) : IsArabic(s[i])
HasTagalogKeyword(s) == \E kw \in tagalog_keywords : Contains(kw, Lower(s))

\* mutant: the keyword test moved in front of the CJK range test
detect_language_hint_keyword_first(s) ==
    IF s = <<>> THEN None
    ELSE IF HasTagalogKeyword(s) THEN Some("tl")
    ELSE IF HasCJK(s) THEN Some("zh")
    ELSE IF HasArabic(s) THEN Some("ur")
    ELSE None

\* mutant: the Arabic-script test moved in front of the keyword test
detect_language_hint_arabic_first(s) ==
    IF s = <<>> THEN None
    ELSE IF HasCJK(s) THEN Some("zh")
    ELSE IF HasArabic(s) THEN Some("ur")
    ELSE IF HasTagalogKeyword(s) THEN Some("tl")
    ELSE None

detect_language_hint(s) ==
    IF s = <<>> THEN None
    ELSE IF HasCJK(s) THEN Some("zh")
    ELSE IF HasTagalogKeyword(s) THEN Some("tl")
    ELSE IF HasArabic(s) THEN Some("ur")
    ELSE None

-----------------------------------------------------------------------------
(* The detector called on its own *)

\* characters on both sides of each range boundary and the letters of the
\* keywords "oo", "po", "opo" (P also in upper case); "pp" matches nothing
DetectChars == {80, 111, 112,
                CJK_FIRST - 1, CJK_FIRST, CJK_LAST, CJK_LAST + 1,
                ARABIC_FIRST - 1, ARABIC_FIRST, ARABIC_LAST, ARABIC_LAST + 1}

DetectTexts == SeqsUpTo(DetectChars, MaxDetectLen)

\* a caller picks an argument
DetectInput ==
    /\ d_pc = "idle"
    /\ d_text' \in DetectTexts
    /\ d_pc' = "input"
    /\ UNCHANGED <<d_result, msgVars, healthVars, restVars>>

\* lines 359-387
DetectCall ==
    /\ d_pc = "input"
    /\ d_result' = detect_language_hint(d_text)
    /\ d_pc' = "returned"
    /\ UNCHANGED <<d_text, msgVars, healthVars, restVars>>

\* the caller has used the result
DetectDone ==
    /\ d_pc = "returned"
    /\ d_text' = <<>>
    /\ d_result' = None
    /\ d_pc' = "idle"
    /\ UNCHANGED <<msgVars, healthVars, restVars>>

-----------------------------------------------------------------------------
(* Translation client *)

\* the prompt pair chosen by translate_with_deepseek
PromptFor(source_lang_hint, target_lang) ==
    IF source_lang_hint = Some("zh") /\ target_lang = "ur" THEN "zh->ur"
    ELSE IF source_lang_hint = Some("tl") /\ target_lang = "en" THEN "tl->en"
    ELSE IF source_lang_hint = Some("ur") /\ target_lang = "en" THEN "ur->en"
    ELSE "default->en"

FULLWIDTH_COLON == 65306
MarkerFanyi == <<32763, 35793, FULLWIDTH_COLON>>      \* the first marker

\* the markers, in the order of the list
markers == <<
    MarkerFanyi,
    <<84, 114, 97, 110, 115, 108, 97, 116, 105, 111, 110, 58>>,
    <<20044, 23572, 37117, 35821, 32763, 35793, FULLWIDTH_COLON>>,
    <<33521, 35821, 32763, 35793, FULLWIDTH_COLON>>,
    <<20197, 19979, 26159, 32763, 35793, 32467, 26524, FULLWIDTH_COLON>>,
    <<1575, 1585, 1583, 1608, 32, 1578, 1585, 1580, 1605, 1729, 58>>,
    <<69, 110, 103, 108, 105, 115, 104, 32, 116, 114, 97, 110, 115, 108,
      97, 116, 105, 111, 110, 58>> >>

\* the for loop over markers: cut at the first marker of the list that occurs
RECURSIVE CutMarker(_, _)
CutMarker(s, i) ==
    IF i > Len(markers) THEN s
    ELSE IF Contains(markers[i], s) THEN Strip(AfterFirst(markers[i], s))
    ELSE CutMarker(s, i + 1)

\* lines 331-341: the completion text as returned to the caller
CleanCompletion(content) ==
    Strip(StripChars(CutMarker(Strip(content), 1), {DQUOTE, SQUOTE}))

\* A response to the POST: kind is "timeout", "network" (any other
\* RequestException raised by requests.post), "http" (a response arrived,
\* with its status code) ; for status 200, body is "json" (the completion is
\* in content), "nofield" (JSON without choices/message/content),
\* "nullcontent" (content is null) or "notjson".
HttpFailures ==
    {[kind |-> "timeout", status |-> 0, body |-> "none", content |-> <<>>],
     [kind |-> "network", status |-> 0, body |-> "none", content |-> <<>>]}
    \cup {[kind |-> "http", status |-> st, body |-> "none", content |-> <<>>] :
            st \in {401, 402, 403, 429, 500}}
    \cup {[kind |-> "http", status |-> 200, body |-> b, content |-> <<>>] :
            b \in {"nofield", "nullcontent", "notjson"}}

HttpCompletion(content) ==
    [kind |-> "http", status |-> 200, body |-> "json", content |-> content]

\* lines 317-344: how the try body ends for a response: with a return
\* ("return None", "return text") or with the exception raised
TryBodyEnds(resp) ==
    IF resp.kind = "timeout" THEN "Timeout"
    ELSE IF resp.kind = "network" THEN "ConnectionError"
    ELSE IF resp.status = 429 THEN "return None@323"
    ELSE IF resp.status = 402 THEN "return None@326"
    ELSE IF resp.status >= 400 THEN "HTTPError"
    ELSE IF resp.body = "notjson" THEN "JSONDecodeError"
    ELSE IF resp.body = "nofield" THEN "KeyError"
    ELSE IF resp.body = "nullcontent" THEN "AttributeError"
    ELSE "return text@344"

\* the exceptions of requests.exceptions, all of them RequestException
RequestExceptions == {"Timeout", "ConnectionError", "HTTPError", "JSONDecodeError"}

\* mutant: without the last clause, except Exception
ExceptClause_no_catch_all(exc) ==
    IF exc = "Timeout" THEN "Timeout@346"
    ELSE IF exc \in RequestExceptions THEN "RequestException@348"
    ELSE IF exc \in {"KeyError", "IndexError"} THEN "KeyError@350"
    ELSE "uncaught"

\* lines 346-355: the except clause that takes an exception, first match
ExceptClause(exc) ==
    IF exc = "Timeout" THEN "Timeout@346"
    ELSE IF exc \in RequestExceptions THEN "RequestException@348"
    ELSE IF exc \in {"KeyError", "IndexError"} THEN "KeyError@350"
    ELSE "Exception@354"

\* translate_with_deepseek: ret is the value returned, posts the number of
\* HTTP POSTs issued, logged the place that logged the outcome, raised
\* whether an exception left the function
translate_with_deepseek(txt, source_lang_hint, target_lang, resp) ==
    IF txt = <<>> \/ Len(Strip(txt)) = 0
    THEN [ret |-> None, posts |-> 0, logged |-> "nothing", raised |-> FALSE]
    ELSE LET end == TryBodyEnds(resp)
         IN  IF end = "return text@344"
             THEN [ret |-> Some(CleanCompletion(resp.content)), posts |-> 1,
                   logged |-> end, raised |-> FALSE]
             ELSE IF end \in {"return None@323", "return None@326"}
             THEN [ret |-> None, posts |-> 1, logged |-> end, raised |-> FALSE]
             ELSE [ret |-> None, posts |-> 1, logged |-> ExceptClause(end),
                   raised |-> ExceptClause(end) = "uncaught"]

-----------------------------------------------------------------------------
(* Dispatch pipeline: handle_message                                       *)
(*                                                                         *)
(* The handler is a coroutine: every await is a step of its own.  The try  *)
(* statements opened at lines 427, 464 and 501 have no except clause of    *)
(* their own in the source; an exception raised inside them is taken to    *)
(* reach the handler of the enclosing try, at line 548.  Every call to the *)
(* chat platform may raise; calls records each call issued together with   *)
(* whether it went through (ok).  A reply is "sent" when reply_text was    *)
(* called for it.                                                          *)

\* incoming message texts: white space, the command prefix, the letters of
\* the keywords "oo", "po", "opo", one CJK and one Arabic-script character
MsgChars == {SPACE, SLASH, 111, 112, 20013, 1575}
MsgTexts == SeqsUpTo(MsgChars, MaxLen)
ChatTypes == {"private", "group", "supergroup"}
MessageIds == {101, 102}

\* completions the API may answer with for a given source text: the text
\* itself (bare, quoted, padded, behind a marker), nothing, quotes only, a
\* marker only, and texts different from the source
Completions(txt) ==
    {txt, <<DQUOTE>> \o txt \o <<DQUOTE>>, <<SPACE>> \o txt \o <<10>>,
     MarkerFanyi \o txt, <<>>, <<DQUOTE, DQUOTE>>, MarkerFanyi,
     <<101, 110>>, <<117, 114>>, <<101>> \o MarkerFanyi \o <<110>>}

ApiResponses(txt) == HttpFailures \cup {HttpCompletion(c) : c \in Completions(txt)}

\* the target language and its display name chosen by the branch of
\* handle_message for a hint
\* mutant: the configured target language used for Chinese text
TargetLang_configured(hint) == IF hint = Some("zh") THEN TARGET_LANGUAGE ELSE "en"

TargetLang(hint) == IF hint = Some("zh") THEN "ur" ELSE "en"

TargetLangName(hint) == IF hint = Some("zh") THEN "Urdu" ELSE "English"

Call(op, kind, ok, payload) ==
    [op |-> op, kind |-> kind, reply_to |-> message_id, ok |-> ok,
     payload |-> payload]

\* mutant: the result reply and the error notice are sent outside the try
ExceptTarget_reply_unprotected(site) ==
    CASE site = "ack" -> "translate"
      [] site = "call" -> "except"
      [] site = "delete" -> "decide"
      [] site = "reply" -> "escaped"
      [] site = "cleanup" -> "done"

\* mutant: a processing notice that cannot be sent ends the handling
ExceptTarget_ack_unprotected(site) ==
    CASE site = "ack" -> "except"
      [] site = "call" -> "except"
      [] site = "delete" -> "decide"
      [] site = "reply" -> "except"
      [] site = "cleanup" -> "done"

\* where handle_message goes on when the statement at a site raises: the
\* clauses at lines 421, 442 and 553 swallow the exception in place, the
\* handler at line 548 takes every other one
ExceptTarget(site) ==
    CASE site = "ack" -> "translate"
      [] site = "call" -> "except"
      [] site = "delete" -> "decide"
      [] site = "reply" -> "except"
      [] site = "cleanup" -> "done"

\* the next update is handed to the handler
Receive ==
    /\ pc = "idle"
    /\ text' \in MsgTexts
    /\ chat_type' \in ChatTypes
    /\ message_id' \in MessageIds
    /\ pc' = "start"
    /\ UNCHANGED <<original_text, lang_hint, has_processing_msg, translated,
                   target_lang_name, branch, calls, detectVars, healthVars, restVars>>

\* mutant: only the empty text is too short
SkipsText_empty_only(s) == Len(s) < 1 \/ StartsWithSlash(s)

\* line 403: short messages and commands are not translated
SkipsText(s) == Len(s) < 2 \/ StartsWithSlash(s)

\* mutant: the last branch taken as the default for every other hint
HasBranch_default(hint) == TRUE

\* lines 410, 447, 484: the hints handle_message has a branch for
HasBranch(hint) == hint \in {Some("zh"), Some("tl"), Some("ur")}

\* lines 396-410 and 521-523: the guards, the detector, the branch on the hint
HM_Entry ==
    /\ pc = "start"
    /\ IF text = <<>>
       THEN /\ pc' = "done"
            /\ branch' = "return@397"
            /\ UNCHANGED <<original_text, lang_hint>>
       ELSE /\ original_text' = Strip(text)
            /\ IF SkipsText(original_text')
               THEN /\ pc' = "done"
                    /\ branch' = "return@404"
                    /\ UNCHANGED lang_hint
               ELSE /\ lang_hint' = detect_language_hint(original_text')
                    /\ IF HasBranch(lang_hint')
                       THEN /\ pc' = "ack"
                            /\ UNCHANGED branch
                       ELSE /\ pc' = "done"
                            /\ branch' = "return@523"
    /\ UNCHANGED <<text, chat_type, message_id, has_processing_msg, translated,
                   target_lang_name, calls, detectVars, healthVars, restVars>>

\* lines 414-424: the processing notice; a failure to send it is swallowed
HM_SendAck ==
    /\ pc = "ack"
    /\ \E ok \in BOOLEAN :
         /\ calls' = Append(calls, Call("reply_text", "ack", ok, <<>>))
         /\ has_processing_msg' = ok
         /\ pc' = IF ok THEN "translate" ELSE ExceptTarget("ack")
    /\ UNCHANGED <<text, chat_type, message_id, original_text, lang_hint,
                   translated, target_lang_name, branch, detectVars, healthVars, restVars>>

\* lines 426-436: translate_with_deepseek run in the executor and awaited
HM_Translate ==
    /\ pc = "translate"
    /\ \E resp \in ApiResponses(original_text) :
         LET r == translate_with_deepseek(original_text, lang_hint,
                                          TargetLang(lang_hint), resp)
         IN  /\ translated' = r.ret
             /\ pc' = IF r.raised THEN ExceptTarget("call") ELSE "delete"
             /\ calls' = calls \o
                  [i \in 1..r.posts |->
                     Call("post", PromptFor(lang_hint, TargetLang(lang_hint)),
                          TRUE, <<TargetLang(lang_hint), original_text>>)]
    /\ UNCHANGED <<text, chat_type, message_id, original_text, lang_hint,
                   has_processing_msg, target_lang_name, branch, detectVars,
                   healthVars, restVars>>

\* lines 438-445: the processing notice is deleted, failure swallowed
HM_DeleteAck ==
    /\ pc = "delete"
    /\ IF has_processing_msg
       THEN \E ok \in BOOLEAN :
              /\ calls' = Append(calls, Call("delete", "ack", ok, <<>>))
              /\ pc' = IF ok THEN "decide" ELSE ExceptTarget("delete")
       ELSE /\ pc' = "decide"
            /\ UNCHANGED calls
    /\ target_lang_name' = TargetLangName(lang_hint)
    /\ UNCHANGED <<text, chat_type, message_id, original_text, lang_hint,
                   has_processing_msg, translated, branch, detectVars, healthVars, restVars>>

\* mutant: the comparison inverted
IsNewTranslation_inverted(v, orig) == Truthy(v) /\ v[1] = orig

\* mutant: every truthy result counts as new
IsNewTranslation_any(v, orig) == Truthy(v)

\* line 525: translated and translated != original_text
IsNewTranslation(v, orig) == Truthy(v) /\ v[1] # orig

\* mutant: the error notice goes to every chat
NotifiesFailure_all(ct) == TRUE

\* line 542: only multi-party chats are told about a failure
NotifiesFailure(ct) == ct \in {"group", "supergroup"}

\* lines 525-546: the result reply, the silent skip or the failure notice; a
\* reply_text that raises leaves through the handler at line 548
HM_Reply ==
    /\ pc = "decide"
    /\ IF IsNewTranslation(translated, original_text)
       THEN /\ branch' = "reply@530"
            /\ \E ok \in BOOLEAN :
                 /\ calls' = Append(calls,
                        Call("reply_text", "result", ok,
                             <<target_lang_name, translated[1]>>))
                 /\ pc' = IF ok THEN "done" ELSE ExceptTarget("reply")
       ELSE IF Truthy(translated)
       THEN /\ branch' = "same@538"
            /\ pc' = "done"
            /\ UNCHANGED calls
       ELSE /\ branch' = "failed@540"
            /\ IF NotifiesFailure(chat_type)
               THEN \E ok \in BOOLEAN :
                      /\ calls' = Append(calls,
                             Call("reply_text", "error", ok, <<>>))
                      /\ pc' = IF ok THEN "done" ELSE ExceptTarget("reply")
               ELSE /\ pc' = "done"
                    /\ UNCHANGED calls
    /\ UNCHANGED <<text, chat_type, message_id, original_text, lang_hint,
                   has_processing_msg, translated, target_lang_name,
                   detectVars, healthVars, restVars>>

AckDeleted == \E i \in 1..Len(calls) : calls[i].op = "delete" /\ calls[i].ok

\* lines 548-554: the exception is logged and the processing notice deleted
\* (again), failure swallowed; a notice already deleted cannot be deleted
HM_Except ==
    /\ pc = "except"
    /\ LET logged == Append(calls, Call("log", "error", TRUE, <<>>))
       IN  IF has_processing_msg
           THEN \E ok \in (IF AckDeleted THEN {FALSE} ELSE BOOLEAN) :
                  /\ calls' = Append(logged, Call("delete", "ack", ok, <<>>))
                  /\ pc' = IF ok THEN "done" ELSE ExceptTarget("cleanup")
           ELSE /\ calls' = logged
                /\ pc' = "done"
    /\ UNCHANGED <<text, chat_type, message_id, original_text, lang_hint,
                   has_processing_msg, translated, target_lang_name, branch,
                   detectVars, healthVars, restVars>>

\* the coroutine has returned: its locals are gone
HM_Return ==
    /\ pc = "done"
    /\ pc' = "idle"
    /\ text' = <<>>
    /\ chat_type' = "private"
    /\ message_id' = 101
    /\ original_text' = <<>>
    /\ lang_hint' = None
    /\ has_processing_msg' = FALSE
    /\ translated' = None
    /\ target_lang_name' = "unset"
    /\ branch' = "running"
    /\ calls' = <<>>
    /\ UNCHANGED <<detectVars, healthVars, restVars>>

\* the terminal state of the pipeline, by the return path taken
PipelineState ==
    CASE branch = "reply@530" -> "Sent"
      [] branch = "failed@540" -> "Failed"
      [] branch \in {"return@397", "return@404", "return@523", "same@538"}
           -> "Skipped"
      [] OTHER -> "Running"

CallsOf(op, kind) ==
    {i \in 1..Len(calls) : calls[i].op = op /\ calls[i].kind = kind}
Posts == {i \in 1..Len(calls) : calls[i].op = "post"}

-----------------------------------------------------------------------------
(* Health endpoint: RealHealthCheckHandler *)

MIN_KEY_LEN == 10          \* shortest credential taken as well-formed
MEMORY_LIMIT == 85         \* memory_percent above this fails the check
CRITICAL_AFTER == 3        \* consecutive failures from which the status is critical

\* a credential is a string; only its length is looked at
TokenLengths == {5, 46}
KeyLengths == {5, 35}

\* outcome of the probe POST of check_deepseek_api
Probes == {"timeout", "error", "200", "401", "403", "402", "429", "500"}
\* outcome of process.memory_percent(): a percentage, or -1 when psutil raises
MemoryReadings == {-1, 40, 85, 86}

check_telegram_connection(token) ==
    ~(token = 0 \/ token < MIN_KEY_LEN)

\* mutant: a probe that times out fails the check
check_deepseek_api_hard_timeout(key, probe) ==
    IF key = 0 \/ key < MIN_KEY_LEN THEN FALSE
    ELSE probe \notin {"timeout", "error", "401", "403"}

check_deepseek_api(key, probe) ==
    IF key = 0 \/ key < MIN_KEY_LEN THEN FALSE
    ELSE IF probe = "timeout" THEN TRUE
    ELSE IF probe = "error" THEN FALSE
    ELSE probe \notin {"401", "403"}

\* lines 163-185: the probe POSTs of one call of check_deepseek_api
ProbePosts(key) == IF key = 0 \/ key < MIN_KEY_LEN THEN 0 ELSE 1

check_process_memory(reading) ==
    IF reading = -1 THEN TRUE
    ELSE IF reading > MEMORY_LIMIT THEN FALSE
    ELSE TRUE

check_bot_functionality == TRUE

AllHealthy(c) == c.telegram_api /\ c.deepseek_api /\ c.process_memory /\ c.bot_functional

\* mutant: a healthy cycle leaves the counter alone
NextFailureCount_no_reset(all_healthy, n) == IF all_healthy THEN n ELSE n + 1

\* lines 75-83
NextFailureCount(all_healthy, n) == IF all_healthy THEN 0 ELSE n + 1

\* mutant: critical only above the threshold
StatusCodeFor_late(all_healthy, n) ==
    IF all_healthy THEN 200 ELSE IF n <= CRITICAL_AFTER THEN 503 ELSE 500

\* line 86
StatusCodeFor(all_healthy, n) ==
    IF all_healthy THEN 200 ELSE IF n < CRITICAL_AFTER THEN 503 ELSE 500

\* line 99
StatusFieldFor(all_healthy, n) ==
    IF all_healthy THEN "healthy"
    ELSE IF n < CRITICAL_AFTER THEN "degraded" ELSE "critical"

StatusLine(code) == [part |-> "status", code |-> code, status |-> "-", failure_count |-> -1]
Headers == [part |-> "headers", code |-> 0, status |-> "-", failure_count |-> -1]
Body(status, n) == [part |-> "body", code |-> 0, status |-> status, failure_count |-> n]

NoChecks == [telegram_api |-> TRUE, deepseek_api |-> TRUE,
             process_memory |-> TRUE, bot_functional |-> TRUE]

\* a GET arrives; the server handles one request at a time
H_Request ==
    /\ h_pc \in {"idle", "done"}
    /\ Len(cycles) < MaxCycles
    /\ h_path' \in {"/health", "/", "/favicon.ico"}
    /\ h_pc' = "start"
    /\ wire' = <<>>
    /\ h_checks' = NoChecks
    /\ status_code' = 0
    /\ UNCHANGED <<TELEGRAM_TOKEN, DEEPSEEK_API_KEY, consecutive_failures,
                   cycles, detectVars, msgVars, restVars>>

\* lines 139-144
H_NotFound ==
    /\ h_pc = "start"
    /\ h_path \notin {"/health", "/"}
    /\ wire' = <<StatusLine(404), Headers, Body("not found", -1)>>
    /\ h_pc' = "done"
    /\ UNCHANGED <<TELEGRAM_TOKEN, DEEPSEEK_API_KEY, consecutive_failures,
                   h_path, h_checks, status_code, cycles, detectVars, msgVars, restVars>>

\* lines 63-90: the four checks, the counter, the status line and headers
H_Cycle ==
    /\ h_pc = "start"
    /\ h_path \in {"/health", "/"}
    /\ \E probe \in Probes, reading \in MemoryReadings :
         h_checks' = [telegram_api |-> check_telegram_connection(TELEGRAM_TOKEN),
                      deepseek_api |-> check_deepseek_api(DEEPSEEK_API_KEY, probe),
                      process_memory |-> check_process_memory(reading),
                      bot_functional |-> check_bot_functionality]
    /\ consecutive_failures' =
         NextFailureCount(AllHealthy(h_checks'), consecutive_failures)
    /\ status_code' = StatusCodeFor(AllHealthy(h_checks'), consecutive_failures')
    /\ wire' = <<StatusLine(status_code'), Headers>>
    /\ cycles' = Append(cycles, AllHealthy(h_checks'))
    /\ h_pc' = "body"
    /\ UNCHANGED <<TELEGRAM_TOKEN, DEEPSEEK_API_KEY, h_path, detectVars, msgVars, restVars>>

\* an exception raised in lines 63-70, before the counter is touched
H_CycleRaises ==
    /\ h_pc = "start"
    /\ h_path \in {"/health", "/"}
    /\ h_pc' = "except"
    /\ UNCHANGED <<TELEGRAM_TOKEN, DEEPSEEK_API_KEY, consecutive_failures,
                   h_path, h_checks, status_code, wire, cycles, detectVars,
                   msgVars, restVars>>

\* lines 92-125: the JSON document of the cycle is written
H_Body ==
    /\ h_pc = "body"
    /\ wire' = Append(wire, Body(StatusFieldFor(AllHealthy(h_checks),
                                                 consecutive_failures),
                                 consecutive_failures))
    /\ h_pc' = "done"
    /\ UNCHANGED <<TELEGRAM_TOKEN, DEEPSEEK_API_KEY, consecutive_failures,
                   h_path, h_checks, status_code, cycles, detectVars, msgVars, restVars>>

\* an exception raised in lines 92-125, after end_headers
H_BodyRaises ==
    /\ h_pc = "body"
    /\ h_pc' = "except"
    /\ UNCHANGED <<TELEGRAM_TOKEN, DEEPSEEK_API_KEY, consecutive_failures,
                   h_path, h_checks, status_code, wire, cycles, detectVars,
                   msgVars, restVars>>

\* lines 127-138: the handler writes a 500 response of its own
H_Except ==
    /\ h_pc = "except"
    /\ wire' = wire \o <<StatusLine(500), Headers, Body("error", -1)>>
    /\ h_pc' = "done"
    /\ UNCHANGED <<TELEGRAM_TOKEN, DEEPSEEK_API_KEY, consecutive_failures,
                   h_path, h_checks, status_code, cycles, detectVars, msgVars, restVars>>

-----------------------------------------------------------------------------
(* The translation client called on its own *)

\* no text, blank texts, a keyword, a padded CJK character
ClientTexts == {<<>>, <<SPACE>>, <<SPACE, 10>>, <<111, 111>>, <<SPACE, 20013>>}
\* the three language pairs of handle_message and the defaults (None, None)
ClientLangs == {<<Some("zh"), "ur">>, <<Some("tl"), "en">>,
                <<Some("ur"), "en">>, <<None, "none">>}
\* completion texts: white space, a quote, a letter and the characters of
\* the first marker
ContentChars == {SPACE, DQUOTE, 101, 32763, 35793, FULLWIDTH_COLON}
ClientResponses ==
    HttpFailures \cup
    {HttpCompletion(c) : c \in SeqsUpTo(ContentChars, MaxContentLen)}

NoResponse == [kind |-> "none", status |-> 0, body |-> "none", content |-> <<>>]
NoOutcome == [ret |-> None, posts |-> 0, logged |-> "nothing", raised |-> FALSE]

\* a caller picks the arguments
TC_Input ==
    /\ t_pc = "idle"
    /\ t_text' \in ClientTexts
    /\ t_langs' \in ClientLangs
    /\ t_pc' = "called"
    /\ UNCHANGED <<t_resp, t_out, notClient>>

\* lines 267-357, for every answer the API may give
TC_Call ==
    /\ t_pc = "called"
    /\ \E resp \in ClientResponses :
         /\ t_out' = translate_with_deepseek(t_text, t_langs[1], t_langs[2], resp)
         /\ t_resp' = IF t_out'.posts = 0 THEN NoResponse ELSE resp
    /\ t_pc' = "returned"
    /\ UNCHANGED <<t_text, t_langs, notClient>>

\* the caller has used the result
TC_Done ==
    /\ t_pc = "returned"
    /\ t_pc' = "idle"
    /\ t_text' = <<>>
    /\ t_langs' = <<None, "none">>
    /\ t_resp' = NoResponse
    /\ t_out' = NoOutcome
    /\ UNCHANGED <<notClient>>

InitClient ==
    /\ t_pc = "idle"
    /\ t_text = <<>>
    /\ t_langs = <<None, "none">>
    /\ t_resp = NoResponse
    /\ t_out = NoOutcome


-----------------------------------------------------------------------------
(* main: configuration check, start-up, the retry loop around run_polling, *)
(* and the way the process ends.  While run_polling runs, the application  *)
(* takes updates from its queue and runs handle_message for them; the      *)
(* application is built without concurrent_updates and the handler is      *)
(* registered as a blocking handler, so the next update is taken up when   *)
(* the handler of the previous one has returned.                           *)

MAX_RETRIES == 5           \* max_retries
BASE_RETRY_DELAY == 10     \* base_retry_delay
MAX_WORKERS == 5           \* ThreadPoolExecutor(max_workers=5)

\* mutant: only the bot token is checked
MissingCredential_token_only(token, key) == token = 0

\* lines 766 and 772: not TELEGRAM_TOKEN, not DEEPSEEK_API_KEY
MissingCredential(token, key) == token = 0 \/ key = 0

\* mutant: the delay grows linearly
RetryDelay_linear(k) == BASE_RETRY_DELAY * (k + 1)

\* line 849
RetryDelay(k) == BASE_RETRY_DELAY * (2 ^ k)

\* mutant: the process ends without waiting for the worker threads
WorkersJoined_no_wait(calls_running) == TRUE

\* executor.shutdown(wait=True) at line 876, and the join of the executor's
\* worker threads when the interpreter exits: both return when no call is
\* running any more
WorkersJoined(calls_running) == calls_running = {}

\* lines 765-776
M_CheckConfig ==
    /\ m_pc = "config"
    /\ IF MissingCredential(TELEGRAM_TOKEN, DEEPSEEK_API_KEY)
       THEN exit_code' = 1 /\ m_pc' = "finalize"
       ELSE exit_code' = exit_code /\ m_pc' = "health"
    /\ UNCHANGED <<attempt, slept, health_started, handlers_registered,
                   poll_attempts, m_failed, poolVars, notMain>>

\* lines 789-801: a failure to start the health server is reported and main
\* goes on
M_StartHealth ==
    /\ m_pc = "health"
    /\ health_started' \in BOOLEAN
    /\ m_pc' = "build"
    /\ UNCHANGED <<attempt, slept, exit_code, handlers_registered,
                   poll_attempts, m_failed, poolVars, notMain>>

\* lines 806-846; an exception here is taken at line 901
M_Build ==
    /\ m_pc = "build"
    /\ \E ok \in BOOLEAN :
         IF ok
         THEN /\ handlers_registered' = TRUE
              /\ m_pc' = "loop"
              /\ UNCHANGED exit_code
         ELSE /\ exit_code' = 1
              /\ m_pc' = "finalize"
              /\ UNCHANGED handlers_registered
    /\ attempt' = 0
    /\ UNCHANGED <<slept, health_started, poll_attempts, m_failed, poolVars,
                   notMain>>

\* lines 848-852: run_polling is called
M_RunPolling ==
    /\ m_pc = "loop"
    /\ poll_attempts' = poll_attempts + 1
    /\ m_pc' = "connecting"
    /\ UNCHANGED <<attempt, slept, exit_code, health_started,
                   handlers_registered, m_failed, poolVars, notMain>>

\* lines 860-899: run_polling raised Conflict, NetworkError or another
\* Exception; the three clauses do the same
M_PollingRaises ==
    /\ m_pc = "connecting"
    /\ m_failed' = m_failed + 1
    /\ IF attempt < MAX_RETRIES - 1
       THEN /\ slept' = Append(slept, RetryDelay(attempt))
            /\ attempt' = attempt + 1
            /\ m_pc' = "loop"
            /\ UNCHANGED exit_code
       ELSE /\ exit_code' = 1
            /\ m_pc' = "finalize"
            /\ UNCHANGED <<slept, attempt>>
    /\ UNCHANGED <<health_started, handlers_registered, poll_attempts,
                   poolVars, notMain>>

\* run_polling is connected and fetches updates
M_Polling ==
    /\ m_pc = "connecting"
    /\ m_pc' = "polling"
    /\ UNCHANGED <<attempt, slept, exit_code, health_started,
                   handlers_registered, poll_attempts, m_failed, poolVars,
                   notMain>>

\* lines 857-858 and the end of main: a stop signal makes run_polling return
M_PollingReturns ==
    /\ m_pc = "polling"
    /\ in_flight_at_stop' = running
    /\ exit_code' = 0
    /\ m_pc' = "finalize"
    /\ UNCHANGED <<attempt, slept, health_started, handlers_registered,
                   poll_attempts, m_failed, arrived, queue, handling, awaiting,
                   running, completed, notMain>>

\* lines 872-876: the stop signal surfaces as KeyboardInterrupt
M_KeyboardInterrupt ==
    /\ m_pc = "polling"
    /\ in_flight_at_stop' = running
    /\ m_pc' = "shutdown"
    /\ UNCHANGED <<attempt, slept, exit_code, health_started,
                   handlers_registered, poll_attempts, m_failed, arrived, queue,
                   handling, awaiting, running, completed, notMain>>

\* lines 876-878: executor.shutdown(wait=True) returns, sys.exit(0)
M_ShutdownReturns ==
    /\ m_pc = "shutdown"
    /\ WorkersJoined(running)
    /\ exit_code' = 0
    /\ m_pc' = "finalize"
    /\ UNCHANGED <<attempt, slept, health_started, handlers_registered,
                   poll_attempts, m_failed, poolVars, notMain>>

\* the interpreter exits: the worker threads of the executor are joined
M_Exit ==
    /\ m_pc = "finalize"
    /\ WorkersJoined(running)
    /\ m_pc' = "exited"
    /\ UNCHANGED <<attempt, slept, exit_code, health_started,
                   handlers_registered, poll_attempts, m_failed, poolVars,
                   notMain>>

\* an update is fetched and put on the update queue
U_Arrive ==
    /\ m_pc = "polling"
    /\ arrived < MaxUpdates
    /\ arrived' = arrived + 1
    /\ queue' = Append(queue, arrived + 1)
    /\ UNCHANGED <<handling, awaiting, running, completed, in_flight_at_stop,
                   mainVars, notMain>>

\* lines 808 and 821-824: the application takes the next update when no
\* handler is running
U_Dispatch ==
    /\ m_pc = "polling"
    /\ queue # <<>>
    /\ handling = 0
    /\ handling' = Head(queue)
    /\ queue' = Tail(queue)
    /\ UNCHANGED <<arrived, awaiting, running, completed, in_flight_at_stop,
                   mainVars, notMain>>

\* lines 429-436: the handler hands its translation call to the executor
\* and awaits it; a worker thread is free (at most one call is in flight)
U_Submit ==
    /\ m_pc = "polling"
    /\ handling # 0
    /\ ~awaiting
    /\ Cardinality(running) < MAX_WORKERS
    /\ running' = running \cup {handling}
    /\ awaiting' = TRUE
    /\ UNCHANGED <<arrived, queue, handling, completed, in_flight_at_stop,
                   mainVars, notMain>>

\* a worker thread comes to the end of translate_with_deepseek
W_Finish ==
    /\ m_pc # "exited"
    /\ \E task \in running :
         /\ running' = running \ {task}
         /\ completed' = completed \cup {task}
    /\ UNCHANGED <<arrived, queue, handling, awaiting, in_flight_at_stop,
                   mainVars, notMain>>

\* lines 438-546: the awaited call is done, the handler goes on and returns
U_HandlerReturns ==
    /\ m_pc = "polling"
    /\ handling # 0
    /\ awaiting
    /\ handling \in completed
    /\ handling' = 0
    /\ awaiting' = FALSE
    /\ UNCHANGED <<arrived, queue, running, completed, in_flight_at_stop,
                   mainVars, notMain>>

InitMain ==
    /\ m_pc = "config"
    /\ attempt = 0
    /\ slept = <<>>
    /\ exit_code = -1
    /\ health_started = FALSE
    /\ handlers_registered = FALSE
    /\ poll_attempts = 0
    /\ m_failed = 0

InitPool ==
    /\ arrived = 0
    /\ queue = <<>>
    /\ handling = 0
    /\ awaiting = FALSE
    /\ running = {}
    /\ completed = {}
    /\ in_flight_at_stop = {}

-----------------------------------------------------------------------------
(* The health server with several clients.  The server is an HTTPServer run *)
(* by serve_forever in one thread: it accepts a request, runs do_GET to its *)
(* end and only then accepts the next.  The clients are the external poller *)
(* and the /status and /health commands, which send their GET from the      *)
(* thread of the application.  consecutive_failures += 1 is a load and a    *)
(* store, and do_GET is split at these points.                              *)

HealthClients == {"poller", "/status", "/health"}

\* the commands run in the thread of the application, one at a time
CommandClients == {"/status", "/health"}

\* the requests whose do_GET has not returned
InService == {i \in 1..Len(served) : served[i].pc # "finished"}

\* the clients that wait for the response to a request they have sent
Outstanding == waiting \cup {served[i].client : i \in InService}

\* mutant: a server that runs every request in a thread of its own
CanAccept_threading(in_service) == TRUE

\* lines 246 and 252: HTTPServer.serve_forever handles one request at a time
CanAccept(in_service) == in_service = {}

\* lines 625, 654 and the external poller: a client sends GET /health
S_Request ==
    /\ \E c \in HealthClients \ Outstanding :
         /\ c \in CommandClients => Outstanding \cap CommandClients = {}
         /\ waiting' = waiting \cup {c}
    /\ Len(served) + Cardinality(waiting) < MaxServed
    /\ UNCHANGED <<served, messages, consecutive_failures, notServe>>

\* the server accepts a waiting request and calls do_GET for it
S_Accept ==
    /\ CanAccept(InService)
    /\ \E c \in waiting :
         /\ waiting' = waiting \ {c}
         /\ served' = Append(served, [client |-> c, pc |-> "checks",
                                      healthy |-> TRUE, tmp |-> 0])
    /\ UNCHANGED <<messages, consecutive_failures, notServe>>

\* lines 67-73: the four checks; line 76 loads the counter, line 83 does not
S_Checks ==
    /\ \E i \in InService :
         /\ served[i].pc = "checks"
         /\ \E all_healthy \in BOOLEAN :
              served' = [served EXCEPT
                           ![i].healthy = all_healthy,
                           ![i].pc = IF all_healthy THEN "store" ELSE "load",
                           ![i].tmp = NextFailureCount(TRUE, 0)]
    /\ UNCHANGED <<waiting, messages, consecutive_failures, notServe>>

\* line 76: the counter is loaded and one is added
S_Load ==
    /\ \E i \in InService :
         /\ served[i].pc = "load"
         /\ served' = [served EXCEPT
                         ![i].tmp = NextFailureCount(FALSE, consecutive_failures),
                         ![i].pc = "store"]
    /\ UNCHANGED <<waiting, messages, consecutive_failures, notServe>>

\* lines 76 and 83: the new value is stored
S_Store ==
    /\ \E i \in InService :
         /\ served[i].pc = "store"
         /\ consecutive_failures' = served[i].tmp
         /\ served' = [served EXCEPT ![i].pc = "respond"]
    /\ UNCHANGED <<waiting, messages, notServe>>

\* lines 86-125: the response is written and do_GET returns
S_Respond ==
    /\ \E i \in InService :
         /\ served[i].pc = "respond"
         /\ served' = [served EXCEPT ![i].pc = "finished"]
    /\ UNCHANGED <<waiting, messages, consecutive_failures, notServe>>

\* handle_message runs for a message; it does not touch the counter
S_Message ==
    /\ messages < MaxUpdates
    /\ messages' = messages + 1
    /\ UNCHANGED <<waiting, served, consecutive_failures, notServe>>

InitServe ==
    /\ waiting = {}
    /\ served = <<>>
    /\ messages = 0

-----------------------------------------------------------------------------
(* The chat commands /status, /health and /languages.  The first two send   *)
(* GET /health to the health server of the same process with requests.get   *)
(* and wait for the response: do_GET runs for this request as for any      *)
(* other.                                                                   *)

Commands == {"/status", "/health", "/languages"}

\* the commands that query the health endpoint (lines 625 and 654)
PollingCommands == {"/status", "/health"}

NoReply == [text |-> "none", code |-> 0, failure_count |-> -1]

\* response.status_code: the code of the first status line
ResponseCode(w) == w[1].code

\* response.json() succeeds: the body is the one JSON document
JsonOk(w) == Len(w) = 3 /\ w[3].part = "body"

\* lines 623-630: the health indication of /status
StatusHealthLabel(w) ==
    IF ResponseCode(w) = 200
    THEN IF ~JsonOk(w) THEN "unavailable"
         ELSE IF w[3].status = "healthy" THEN "healthy" ELSE "degraded"
    ELSE "normal"

\* lines 653-696: the text of /health
HealthText(w) ==
    IF ResponseCode(w) = 200
    THEN IF ~JsonOk(w) THEN "cannot fetch"
         ELSE IF w[3].status \in {"healthy", "degraded", "critical", "error"}
              THEN w[3].status ELSE "unknown"
    ELSE "check failed"

\* a command is handed to its handler
K_Receive ==
    /\ k_pc = "idle"
    /\ h_pc \in {"idle", "done"}
    /\ k_cmd' \in Commands
    /\ k_before' = consecutive_failures
    /\ k_pc' = "start"
    /\ UNCHANGED <<k_reply, healthVars, notCmd>>

\* lines 700-721: /languages shows the counter
K_Languages ==
    /\ k_pc = "start"
    /\ k_cmd = "/languages"
    /\ k_reply' = [text |-> "languages", code |-> 0,
                   failure_count |-> consecutive_failures]
    /\ k_pc' = "done"
    /\ UNCHANGED <<k_cmd, k_before, healthVars, notCmd>>

\* lines 625 and 654: requests.get sends GET /health and the server takes it
K_Get ==
    /\ k_pc = "start"
    /\ k_cmd \in PollingCommands
    /\ h_pc \in {"idle", "done"}
    /\ Len(cycles) < MaxCycles
    /\ h_path' = "/health"
    /\ h_pc' = "start"
    /\ wire' = <<>>
    /\ h_checks' = NoChecks
    /\ status_code' = 0
    /\ k_pc' = "waiting"
    /\ UNCHANGED <<k_cmd, k_before, k_reply, TELEGRAM_TOKEN, DEEPSEEK_API_KEY,
                   consecutive_failures, cycles, notCmd>>

\* lines 629-630 and 695-696: requests.get raises (no server on the port)
K_GetRaises ==
    /\ k_pc = "start"
    /\ k_cmd \in PollingCommands
    /\ k_reply' = [text |-> IF k_cmd = "/status" THEN "unavailable"
                            ELSE "cannot fetch",
                   code |-> 0,
                   failure_count |-> IF k_cmd = "/status"
                                     THEN consecutive_failures ELSE -1]
    /\ k_pc' = "done"
    /\ UNCHANGED <<k_cmd, k_before, healthVars, notCmd>>

\* lines 626-647 and 656-698: the response has come and the reply is sent
K_Response ==
    /\ k_pc = "waiting"
    /\ h_pc = "done"
    /\ k_reply' = IF k_cmd = "/status"
                  THEN [text |-> StatusHealthLabel(wire),
                        code |-> ResponseCode(wire),
                        failure_count |-> consecutive_failures]
                  ELSE [text |-> HealthText(wire),
                        code |-> ResponseCode(wire),
                        failure_count |-> IF ResponseCode(wire) = 200 /\ JsonOk(wire)
                                          THEN wire[3].failure_count ELSE -1]
    /\ k_pc' = "done"
    /\ UNCHANGED <<k_cmd, k_before, healthVars, notCmd>>

\* the handler has returned
K_Return ==
    /\ k_pc = "done"
    /\ k_pc' = "idle"
    /\ k_cmd' = "/languages"
    /\ k_before' = 0
    /\ k_reply' = NoReply
    /\ UNCHANGED <<healthVars, notCmd>>

\* a GET of the external poller, between two commands
K_PollerRequest ==
    /\ k_pc = "idle"
    /\ H_Request

InitCmd ==
    /\ k_pc = "idle"
    /\ k_cmd = "/languages"
    /\ k_before = 0
    /\ k_reply = NoReply

-----------------------------------------------------------------------------
(* The API check of the health endpoint looked at on its own: a check      *)
(* cycle whose three other checks pass.                                    *)

\* no key, keys around the shortest well-formed length, a usual key
ProbeKeyLengths == {0, 5, 9, 10, 11, 35}

NoProbeOutcome == [ret |-> TRUE, posts |-> 0]

\* a GET /health arrives while the API behaves in some way
P_Request ==
    /\ p_pc = "idle"
    /\ Len(cycles) < MaxCycles
    /\ p_probe' \in Probes
    /\ p_before' = consecutive_failures
    /\ p_pc' = "start"
    /\ UNCHANGED <<p_out, consecutive_failures, notProbe>>

\* lines 67-83: the checks and the counter
P_Cycle ==
    /\ p_pc = "start"
    /\ p_out' = [ret |-> check_deepseek_api(DEEPSEEK_API_KEY, p_probe),
                 posts |-> ProbePosts(DEEPSEEK_API_KEY)]
    /\ LET checks == [telegram_api |-> check_telegram_connection(TELEGRAM_TOKEN),
                      deepseek_api |-> p_out'.ret,
                      process_memory |-> check_process_memory(40),
                      bot_functional |-> check_bot_functionality]
       IN  /\ consecutive_failures' =
                 NextFailureCount(AllHealthy(checks), consecutive_failures)
           /\ cycles' = Append(cycles, AllHealthy(checks))
    /\ p_pc' = "done"
    /\ UNCHANGED <<p_probe, p_before, TELEGRAM_TOKEN, DEEPSEEK_API_KEY, h_pc,
                   h_path, h_checks, status_code, wire, detectVars, msgVars,
                   configVars, clientVars, mainVars, poolVars, serveVars,
                   cmdVars>>

\* do_GET has returned
P_Return ==
    /\ p_pc = "done"
    /\ p_pc' = "idle"
    /\ p_probe' = "200"
    /\ p_out' = NoProbeOutcome
    /\ p_before' = 0
    /\ UNCHANGED <<consecutive_failures, notProbe>>

InitProbe ==
    /\ p_pc = "idle"
    /\ p_probe = "200"
    /\ p_out = NoProbeOutcome
    /\ p_before = 0

InitRest == InitClient /\ InitMain /\ InitPool /\ InitServe /\ InitCmd /\ InitProbe

-----------------------------------------------------------------------------
(* Specifications *)

InitDetect ==
    /\ d_pc = "idle"
    /\ d_text = <<>>
    /\ d_result = None

InitMsg ==
    /\ pc = "idle"
    /\ text = <<>>
    /\ chat_type = "private"
    /\ message_id = 101
    /\ original_text = <<>>
    /\ lang_hint = None
    /\ has_processing_msg = FALSE
    /\ translated = None
    /\ target_lang_name = "unset"
    /\ branch = "running"
    /\ calls = <<>>

InitHealth ==
    /\ consecutive_failures = 0
    /\ h_pc = "idle"
    /\ h_path = "/health"
    /\ h_checks = NoChecks
    /\ status_code = 0
    /\ wire = <<>>
    /\ cycles = <<>>

\* both credentials are set, or main exits before anything is started; the
\* pipeline and the detector do not look at them
TargetLanguages == {"en", "ur"}

ConfigSet ==
    /\ TELEGRAM_TOKEN = 46
    /\ DEEPSEEK_API_KEY = 35
    /\ TARGET_LANGUAGE \in TargetLanguages

ConfigDefault ==
    /\ TELEGRAM_TOKEN = 46
    /\ DEEPSEEK_API_KEY = 35
    /\ TARGET_LANGUAGE = "en"

ConfigAny ==
    /\ TELEGRAM_TOKEN \in TokenLengths
    /\ DEEPSEEK_API_KEY \in KeyLengths
    /\ TARGET_LANGUAGE = "en"

\* the dispatch pipeline
Init == ConfigSet /\ InitDetect /\ InitMsg /\ InitHealth /\ InitRest
Next ==
    \/ Receive
    \/ HM_Entry
    \/ HM_SendAck
    \/ HM_Translate
    \/ HM_DeleteAck
    \/ HM_Reply
    \/ HM_Except
    \/ HM_Return
Spec == Init /\ [][Next]_vars

\* the health endpoint
NextHealth ==
    \/ H_Request
    \/ H_NotFound
    \/ H_Cycle
    \/ H_CycleRaises
    \/ H_Body
    \/ H_BodyRaises
    \/ H_Except
InitHealthSpec == ConfigAny /\ InitDetect /\ InitMsg /\ InitHealth /\ InitRest
SpecHealth == InitHealthSpec /\ [][NextHealth]_vars

\* the detector as a function of its argument
NextDetect ==
    \/ DetectInput
    \/ DetectCall
    \/ DetectDone
InitDetectSpec == ConfigDefault /\ InitDetect /\ InitMsg /\ InitHealth /\ InitRest
SpecDetect == InitDetectSpec /\ [][NextDetect]_vars

\* the translation client as a function of its arguments and of the answer
NextClient ==
    \/ TC_Input
    \/ TC_Call
    \/ TC_Done
SpecClient == InitDetectSpec /\ [][NextClient]_vars

\* main from its start, with any combination of set and missing credentials
ConfigAtStart ==
    /\ TELEGRAM_TOKEN \in {0, 46}
    /\ DEEPSEEK_API_KEY \in {0, 35}
    /\ TARGET_LANGUAGE = "en"

InitMainSpec == ConfigAtStart /\ InitDetect /\ InitMsg /\ InitHealth /\ InitRest
NextMain ==
    \/ M_CheckConfig
    \/ M_StartHealth
    \/ M_Build
    \/ M_RunPolling
    \/ M_PollingRaises
    \/ M_Polling
    \/ M_PollingReturns
    \/ M_KeyboardInterrupt
    \/ M_ShutdownReturns
    \/ M_Exit
    \/ U_Arrive
    \/ U_Dispatch
    \/ U_Submit
    \/ W_Finish
    \/ U_HandlerReturns
SpecMain == InitMainSpec /\ [][NextMain]_vars

\* main where every step that can be taken is taken in the end: the main
\* thread and the worker threads keep running, and every call of run_polling
\* ends (it raises, or a stop signal arrives)
SpecMainFair == SpecMain /\ WF_vars(NextMain)

\* the health server with its clients, beside message handling
NextServe ==
    \/ S_Request
    \/ S_Accept
    \/ S_Checks
    \/ S_Load
    \/ S_Store
    \/ S_Respond
    \/ S_Message
SpecServe == InitDetectSpec /\ [][NextServe]_vars

\* the chat commands beside the health endpoint and its poller
NextCommands ==
    \/ K_Receive
    \/ K_Languages
    \/ K_Get
    \/ K_GetRaises
    \/ K_Response
    \/ K_Return
    \/ K_PollerRequest
    \/ H_NotFound
    \/ H_Cycle
    \/ H_CycleRaises
    \/ H_Body
    \/ H_BodyRaises
    \/ H_Except
SpecCommands == InitHealthSpec /\ [][NextCommands]_vars

\* check cycles with a well-formed bot token and any API key
ConfigProbe ==
    /\ TELEGRAM_TOKEN = 46
    /\ DEEPSEEK_API_KEY \in ProbeKeyLengths
    /\ TARGET_LANGUAGE = "en"

InitProbeSpec == ConfigProbe /\ InitDetect /\ InitMsg /\ InitHealth /\ InitRest
NextProbe ==
    \/ P_Request
    \/ P_Cycle
    \/ P_Return
SpecProbe == InitProbeSpec /\ [][NextProbe]_vars

-----------------------------------------------------------------------------
(* Properties of the dispatch pipeline (Spec) *)

ResultReplies == CallsOf("reply_text", "result")
ErrorNotices == CallsOf("reply_text", "error")
AckSends == CallsOf("reply_text", "ack")

\* the text holds no CJK character, no Arabic-script character and, in lower
\* case, no keyword: the detector has nothing to go by
NothingToDetect(s) ==
    /\ \A i \in 1..Len(s) : ~(19968 <= s[i] /\ s[i] <= 40959)
    /\ \A i \in 1..Len(s) : ~(1536 <= s[i] /\ s[i] <= 1791)
    /\ \A kw \in tagalog_keywords : ~Contains(kw, Lower(s))

\* C1: a message whose text gives the detector nothing to go by (hint
\* Unknown) makes no call at all while it is handled (no processing notice,
\* no POST to the translation API, no reply) and ends in Skipped.
C1_UnknownIsSkippedWithoutCalls ==
    (pc # "idle" /\ NothingToDetect(text)) =>
        /\ calls = <<>>
        /\ pc \in {"start", "done"}
        /\ pc = "done" => PipelineState = "Skipped"

\* the detector ran on a text of two or more characters and found nothing
C1_Witness ==
    /\ pc = "done"
    /\ branch = "return@523"
    /\ Len(original_text) >= 2
    /\ NothingToDetect(text)

\* C2: when the translation returned is non-empty and differs from the
\* trimmed message text, the handler ends in Sent having issued exactly one
\* result reply, which refers to the message id, and no error notice; on
\* every path at most one result reply or error notice is issued for a message.
C2_NewTranslationIsSentOnce ==
    /\ Cardinality(ResultReplies \cup ErrorNotices) <= 1
    /\ (pc = "done" /\ Truthy(translated) /\ translated[1] # Strip(text)) =>
          /\ PipelineState = "Sent"
          /\ Cardinality(ResultReplies) = 1
          /\ \A i \in ResultReplies :
                /\ calls[i].reply_to = message_id
                /\ calls[i].payload[2] = translated[1]
          /\ ErrorNotices = {}

\* a translation different from the padded source text was delivered
C2_Witness ==
    /\ pc = "done"
    /\ Truthy(translated)
    /\ text # Strip(text)
    /\ translated[1] # Strip(text)
    /\ \E i \in ResultReplies : calls[i].ok

\* C3: when the translation returned is identical to the (trimmed) text that
\* was handed to the client, the handler ends in Skipped and issues neither a
\* result reply nor an error notice, whatever the chat type.
C3_IdenticalTranslationIsSkipped ==
    (pc \in {"decide", "except", "done"} /\ Posts # {}
        /\ translated = Some(Strip(text))) =>
        /\ ResultReplies = {}
        /\ ErrorNotices = {}
        /\ pc # "except"
        /\ pc = "done" => PipelineState = "Skipped"

\* the API echoed the text of a group message
C3_Witness ==
    /\ pc = "done"
    /\ Posts # {}
    /\ translated = Some(Strip(text))
    /\ chat_type = "group"
    /\ branch = "same@538"

\* C4: when the translation call returns None the handler ends in Failed; it
\* issues one error notice in a group or supergroup chat and none in a
\* private chat, and never a result reply.
C4_FailureNoticeOnlyInGroups ==
    (pc = "done" /\ Posts # {} /\ translated = None) =>
        /\ PipelineState = "Failed"
        /\ ResultReplies = {}
        /\ chat_type \in {"group", "supergroup"} => Cardinality(ErrorNotices) = 1
        /\ chat_type \notin {"group", "supergroup"} => ErrorNotices = {}
        /\ \A i \in ErrorNotices : calls[i].reply_to = message_id

\* a failed translation in a private chat, handled without any notice
C4_Witness ==
    /\ pc = "done"
    /\ Posts # {}
    /\ translated = None
    /\ chat_type = "private"
    /\ PipelineState = "Failed"

\* C5: a message whose text is empty, shorter than 2 characters or starts
\* with '/' never gets past the guards: the hint is not computed, no call of
\* any kind is made and the handler ends in Skipped.
C5_ShortAndCommandsAreSkipped ==
    (pc # "idle" /\ (Len(text) < 2 \/ StartsWithSlash(text))) =>
        /\ calls = <<>>
        /\ lang_hint = None
        /\ pc \in {"start", "done"}
        /\ pc = "done" => PipelineState = "Skipped"

\* a single CJK character was skipped
C5_Witness ==
    /\ pc = "done"
    /\ Len(text) = 1
    /\ HasCJK(text)
    /\ branch = "return@404"

-----------------------------------------------------------------------------
(* Properties of the detector (SpecDetect) *)

\* C9: a text with at least one character in U+4E00..U+9FFF gets the hint
\* Chinese, whatever else it contains.
C9_CJKDominates ==
    (d_pc = "returned" /\ \E i \in 1..Len(d_text) :
                              19968 <= d_text[i] /\ d_text[i] <= 40959) =>
        d_result = Some("zh")

\* a text with a keyword, an Arabic-script character and a CJK character
C9_Witness ==
    /\ d_pc = "returned"
    /\ d_result = Some("zh")
    /\ Contains(<<112, 111>>, d_text)
    /\ \E i \in 1..Len(d_text) : 1536 <= d_text[i] /\ d_text[i] <= 1791

\* C10: a text without CJK character whose lower-cased form contains a
\* keyword as a substring gets the hint Tagalog, also when the keyword is part
\* of a longer word and when Arabic-script characters are present.
C10_KeywordBeforeArabic ==
    (/\ d_pc = "returned"
     /\ \A i \in 1..Len(d_text) : ~(19968 <= d_text[i] /\ d_text[i] <= 40959)
     /\ \E kw \in tagalog_keywords : Contains(kw, Lower(d_text))) =>
        d_result = Some("tl")

\* "Po" inside a longer word, next to an Arabic-script character
C10_Witness ==
    /\ d_pc = "returned"
    /\ d_result = Some("tl")
    /\ Contains(<<112, 80, 111>>, d_text)
    /\ \E i \in 1..Len(d_text) : 1536 <= d_text[i] /\ d_text[i] <= 1791

-----------------------------------------------------------------------------
(* Properties of the health endpoint (SpecHealth) *)

\* number of unhealthy cycles at the end of a sequence of cycle outcomes
RECURSIVE TrailingUnhealthy(_)
TrailingUnhealthy(outcomes) ==
    IF outcomes = <<>> \/ outcomes[Len(outcomes)] THEN 0
    ELSE 1 + TrailingUnhealthy(SubSeq(outcomes, 1, Len(outcomes) - 1))

\* the request at hand has run its check cycle
CycleRan == h_pc \in {"body", "except", "done"} /\ status_code # 0

FourChecksPass ==
    /\ h_checks.telegram_api
    /\ h_checks.deepseek_api
    /\ h_checks.process_memory
    /\ h_checks.bot_functional

\* C6: in a check cycle, four passing checks give HTTP 200 and reset the
\* counter to 0; a failing check gives 503 while the updated counter is below
\* 3 and 500 from 3 on (503 after a prior count of 0, 500 with the counter at 3
\* after a prior count of 2); the status line written carries that code and
\* the JSON document written for the cycle names the matching status
\* (healthy-200, degraded-503, critical-500) and the counter.
C6_StatusFollowsChecksAndCount ==
    CycleRan =>
      LET prior == TrailingUnhealthy(SubSeq(cycles, 1, Len(cycles) - 1))
      IN  /\ FourChecksPass => status_code = 200 /\ consecutive_failures = 0
          /\ (~FourChecksPass /\ consecutive_failures < 3) => status_code = 503
          /\ (~FourChecksPass /\ consecutive_failures >= 3) => status_code = 500
          /\ (~FourChecksPass /\ prior = 0) => status_code = 503
          /\ (~FourChecksPass /\ prior = 2) =>
                status_code = 500 /\ consecutive_failures = 3
          /\ wire[1].part = "status" /\ wire[1].code = status_code
          /\ \A i \in 1..Len(wire) :
                (wire[i].part = "body" /\ wire[i].status # "error") =>
                   /\ <<wire[i].status, status_code>> \in
                         {<<"healthy", 200>>, <<"degraded", 503>>,
                          <<"critical", 500>>}
                   /\ wire[i].failure_count = consecutive_failures

\* the third unhealthy cycle in a row was answered as critical
C6_Witness ==
    /\ h_pc = "done"
    /\ consecutive_failures = 3
    /\ wire = <<StatusLine(500), Headers, Body("critical", 3)>>

\* C7: the counter is the number of unhealthy cycles since the last fully
\* healthy cycle (or since the start): a healthy cycle sets it to 0, any other
\* cycle adds exactly 1, nothing else changes it, and it is never negative.
C7_CounterIsTrailingUnhealthyRun ==
    /\ consecutive_failures = TrailingUnhealthy(cycles)
    /\ consecutive_failures >= 0

\* two unhealthy cycles after a healthy one that followed an unhealthy one
C7_Witness ==
    /\ Len(cycles) >= 4
    /\ SubSeq(cycles, Len(cycles) - 3, Len(cycles)) = <<FALSE, TRUE, FALSE, FALSE>>
    /\ consecutive_failures = 2

\* C8: a GET on /health or / during which an exception is raised is answered
\* with exactly one response: one status line, 500, the headers and one JSON
\* document.
C8_ExceptionGivesOneResponse ==
    (h_pc = "done" /\ \E i \in 1..Len(wire) :
                         wire[i].part = "body" /\ wire[i].status = "error") =>
        wire = <<StatusLine(500), Headers, Body("error", -1)>>

\* C11: a text without CJK character and without keyword gets the hint Urdu
\* if it has a character in U+0600..U+06FF and no hint (Unknown) otherwise;
\* the empty text and ASCII text without keyword get Unknown; the result is
\* always one of the four hints.
C11_UrduOrUnknown ==
    d_pc = "returned" =>
        /\ d_result \in {None, Some("zh"), Some("tl"), Some("ur")}
        /\ d_text = <<>> => d_result = None
        /\ (/\ \A i \in 1..Len(d_text) : ~(19968 <= d_text[i] /\ d_text[i] <= 40959)
            /\ \A kw \in tagalog_keywords : ~Contains(kw, Lower(d_text))) =>
              IF \E i \in 1..Len(d_text) : 1536 <= d_text[i] /\ d_text[i] <= 1791
              THEN d_result = Some("ur")
              ELSE d_result = None

\* a text made of the first and the last character of the Arabic range
C11_Witness ==
    /\ d_pc = "returned"
    /\ d_text = <<1536, 1791, 1791>>
    /\ d_result = Some("ur")

-----------------------------------------------------------------------------
(* Properties of the dispatch pipeline (Spec), continued *)

\* C12: the target language handed to the translation client is a function
\* of the hint of the message at hand alone: Urdu for a text with a CJK
\* character, English for a keyword text and for an Arabic-script text,
\* whatever the chat, the messages handled before and the configured
\* TARGET_LANGUAGE.
C12_TargetFollowsHint ==
    \A i \in Posts :
        LET src == Strip(text)
            cjk == \E k \in 1..Len(src) : 19968 <= src[k] /\ src[k] <= 40959
            kw  == \E w \in tagalog_keywords : Contains(w, Lower(src))
        IN  /\ calls[i].payload[1] = (IF cjk THEN "ur" ELSE "en")
            /\ calls[i].kind = (IF cjk THEN "zh->ur"
                                ELSE IF kw THEN "tl->en" ELSE "ur->en")

\* a Chinese text sent on to be translated into Urdu while English is
\* configured
C12_Witness ==
    /\ pc = "done"
    /\ TARGET_LANGUAGE = "en"
    /\ HasCJK(text)
    /\ \E i \in Posts : calls[i].payload[1] = "ur"

-----------------------------------------------------------------------------
(* Properties of the translation client (SpecClient) *)

\* the answer is not a completion: no answer, an HTTP error, or a body
\* without the completion text
IsFailure(resp) == resp.kind # "http" \/ resp.status # 200 \/ resp.body # "json"

\* C13: a call issues at most one POST (exactly one for a text that is not
\* blank, none for an empty or blank text), returns None whenever the answer
\* is a failure or the text is blank, and no exception leaves it.
C13_OnePostNoneOnFailure ==
    t_pc = "returned" =>
        /\ t_out.posts <= 1
        /\ ~t_out.raised
        /\ IF \A i \in 1..Len(t_text) : t_text[i] \in {9, 10, 13, 32}
           THEN t_out.posts = 0 /\ t_out.ret = None
           ELSE /\ t_out.posts = 1
                /\ IsFailure(t_resp) => t_out.ret = None
                /\ ~IsFailure(t_resp) => t_out.ret # None

\* a completion whose content is null ended the call with None
C13_Witness ==
    /\ t_pc = "returned"
    /\ t_resp.body = "nullcontent"
    /\ t_out.posts = 1
    /\ t_out.ret = None

\* the error kind of a failure, by the taxonomy of the translation client
ErrorKind(resp) ==
    IF resp.kind = "timeout" THEN "Timeout"
    ELSE IF resp.kind = "http" /\ resp.status = 429 THEN "RateLimited"
    ELSE IF resp.kind = "http" /\ resp.status = 402 THEN "QuotaExhausted"
    ELSE IF resp.kind = "http" /\ resp.status \in {401, 403} THEN "AuthFailure"
    ELSE IF resp.kind = "http" /\ resp.status = 200 THEN "MalformedResponse"
    ELSE "NetworkFailure"

\* the failures whose kind the taxonomy leaves no doubt about
ClearFailures == {r \in HttpFailures : r.body \notin {"notjson", "nullcontent"}}

\* C14: failures of different error kinds end the call in different ways:
\* no failure of another kind is reported the way the failure at hand is.
C14_KindsAreDistinguished ==
    (t_pc = "returned" /\ t_resp \in ClearFailures) =>
        \A other \in ClearFailures :
            ErrorKind(other) # ErrorKind(t_resp) =>
                translate_with_deepseek(t_text, t_langs[1], t_langs[2],
                                         other).logged # t_out.logged

\* the delays of the retry loop, in order
RetrySchedule == <<10, 20, 40, 80>>

\* what holds of the retry loop in every state of main
RetryLoopIsBounded ==
    /\ poll_attempts <= 5
    /\ slept = SubSeq(RetrySchedule, 1, IF m_failed = 5 THEN 4 ELSE m_failed)
    /\ m_pc = "loop" => (poll_attempts = m_failed /\ m_failed < 5
                         /\ ENABLED M_RunPolling)
    /\ m_pc \in {"connecting", "polling", "shutdown"} =>
           poll_attempts = m_failed + 1
    /\ m_failed = 5 => (m_pc \in {"finalize", "exited"} /\ exit_code = 1
                        /\ poll_attempts = 5)
    /\ exit_code = 0 => (m_pc \in {"finalize", "exited"}
                         /\ poll_attempts = m_failed + 1)

C16_MissingCredentialIsFatal ==
    (TELEGRAM_TOKEN = 0 \/ DEEPSEEK_API_KEY = 0) =>
        /\ ~health_started
        /\ ~handlers_registered
        /\ poll_attempts = 0
        /\ slept = <<>>
        /\ m_pc \in {"config", "finalize", "exited"}
        /\ m_pc # "config" => exit_code = 1

\* the token is set, the API key is missing, and the process has ended
C16_Witness ==
    /\ TELEGRAM_TOKEN # 0
    /\ DEEPSEEK_API_KEY = 0
    /\ m_pc = "exited"
    /\ exit_code = 1

\* the result replies and error notices whose sending raised
FailedSends == {i \in ResultReplies \cup ErrorNotices : ~calls[i].ok}

\* the entries written to the log by the handler at line 548
ErrorLogs == CallsOf("log", "error")

\* C17: whatever fails while a message is processed (the processing notice,
\* its deletion, the translation call, the result reply or the error notice),
\* no exception leaves handle_message: the handler comes to its end.  A reply
\* or notice whose sending failed is logged and not sent again, and once the
\* handler has returned nothing of the failed message is left for the next.
C17_FailuresStayInTheHandler ==
    /\ pc \in {"idle", "start", "ack", "translate", "delete", "decide",
               "except", "done"}
    /\ \A i \in FailedSends :
          /\ pc \in {"except", "done"}
          /\ \A j \in ResultReplies \cup ErrorNotices : j <= i
          /\ pc = "done" => \E l \in ErrorLogs : l > i
    /\ pc = "idle" => InitMsg

\* the processing notice was sent, the result reply failed, and so did the
\* deletion of the notice in the handler: the handler still came to its end
C17_Witness ==
    /\ pc = "done"
    /\ \E i \in AckSends : calls[i].ok
    /\ \E i \in FailedSends : calls[i].kind = "result"
    /\ ErrorLogs # {}
    /\ \E i \in CallsOf("delete", "ack") :
          ~calls[i].ok /\ \E l \in ErrorLogs : l < i

\* C18: at most 5 translation calls run at a time, and while main polls, a
\* call is running and fewer than 5 are, an update waiting in the queue can
\* be taken up (and its call started) without the running call ending first.
C18_CallsAreNotSerialized ==
    /\ Cardinality(running) <= MAX_WORKERS
    /\ (m_pc = "polling" /\ queue # <<>> /\ running # {}
            /\ Cardinality(running) < MAX_WORKERS) =>
          ENABLED U_Dispatch

\* C19: when the process has ended after a stop signal, no translation call
\* is running any more, and every call that was running when the signal
\* arrived has run to its end.
C19_PoolIsDrainedBeforeExit ==
    m_pc = "exited" =>
        /\ running = {}
        /\ in_flight_at_stop \subseteq completed

\* polling was stopped while a translation call was running, and the process
\* has ended
C19_Witness ==
    /\ m_pc = "exited"
    /\ exit_code = 0
    /\ in_flight_at_stop # {}
    /\ in_flight_at_stop \subseteq completed

\* the outcomes of the cycles that have updated the counter, in the order in
\* which their requests were served
AppliedOutcomes ==
    LET applied == {i \in 1..Len(served) :
                        served[i].pc \in {"respond", "finished"}}
        RECURSIVE Pick(_)
        Pick(n) == IF n = 0 THEN <<>>
                   ELSE IF n \in applied
                        THEN Append(Pick(n - 1), served[n].healthy)
                        ELSE Pick(n - 1)
    IN  Pick(Len(served))

\* the counter after the cycles of a sequence of outcomes, one after another
RECURSIVE SequentialCount(_)
SequentialCount(outcomes) ==
    IF outcomes = <<>> THEN 0
    ELSE IF outcomes[Len(outcomes)] THEN 0
    ELSE 1 + SequentialCount(SubSeq(outcomes, 1, Len(outcomes) - 1))

\* C20: with the poller and the two commands sending GET /health in any
\* interleaving, beside message handling, at most one check cycle runs at a
\* time and the failure counter is what the cycles that have updated it give
\* when applied one after another in the order they were served.
C20_CounterHasOneWriter ==
    /\ Cardinality(InService) <= 1
    /\ consecutive_failures = SequentialCount(AppliedOutcomes)

\* two unhealthy cycles for different clients were served while a third
\* client was already waiting and a message was handled
C20_Witness ==
    /\ consecutive_failures = 2
    /\ messages > 0
    /\ Len(served) >= 2
    /\ served[1].client # served[2].client
    /\ \E i \in 1..Len(served) :
          /\ served[i].pc = "finished"
          /\ "poller" \in waiting \/ CommandClients \cap waiting # {}

-----------------------------------------------------------------------------
(* Properties of the chat commands (SpecCommands) *)

\* C21: when the handler of a /status, /health or /languages command is at
\* its end, the failure counter is what it was when the command arrived; and
\* a GET on a path other than /health and / leaves the counter alone.
C21_CommandsLeaveCounterAlone ==
    /\ k_pc = "done" => consecutive_failures = k_before
    /\ (h_pc = "done" /\ h_path \notin {"/health", "/"} /\ cycles = <<>>) =>
          consecutive_failures = 0

\* C25: /status shows the bot as normal or healthy only when the endpoint
\* answered its GET with 200.
C25_StatusAgreesWithEndpoint ==
    (k_pc = "done" /\ k_cmd = "/status"
        /\ k_reply.text \in {"normal", "healthy"}) =>
        k_reply.code = 200

-----------------------------------------------------------------------------
(* Properties of the API check (SpecProbe) *)

\* C22: with a key of at least 10 characters the API check sends one probe
\* and fails only for a 401 or 403 response and for an exception other than
\* a timeout; with a missing or shorter key it fails without sending a
\* probe.  A cycle whose probe times out or is answered 429 or 402 does not
\* raise the failure counter on account of this check.
C22_ApiCheckSoftFails ==
    p_pc = "done" =>
        /\ DEEPSEEK_API_KEY < 10 => (~p_out.ret /\ p_out.posts = 0)
        /\ DEEPSEEK_API_KEY >= 10 =>
              /\ p_out.posts = 1
              /\ p_out.ret = (p_probe \notin {"401", "403", "error"})
              /\ p_probe \in {"timeout", "429", "402", "500"} =>
                    consecutive_failures <= p_before

\* the probe of a cycle timed out after failed cycles: the check passed and
\* the counter was not raised
C22_Witness ==
    /\ p_pc = "done"
    /\ DEEPSEEK_API_KEY = 10
    /\ p_probe = "timeout"
    /\ p_out.ret
    /\ p_before > 0
    /\ consecutive_failures = 0

-----------------------------------------------------------------------------
(* Further properties of the dispatch pipeline (Spec) *)

\* the return path that goes with the translation returned
UsualBranch ==
    IF Truthy(translated) /\ translated[1] # original_text THEN "reply@530"
    ELSE IF Truthy(translated) THEN "same@538"
    ELSE "failed@540"

\* the deletions of the processing notice attempted so far
AckDeletes == CallsOf("delete", "ack")

\* C23: when the processing notice could not be sent, the translation call
\* is made all the same and its outcome takes the usual path; when it was
\* sent, its deletion is attempted after the translation call and before
\* the result reply or error notice, and a deletion that fails neither keeps
\* the handler from that path nor leaves the handler as an exception.
C23_AckIsBestEffort ==
    (pc = "done" /\ AckSends # {}) =>
        /\ Posts # {}
        /\ branch = UsualBranch
        /\ branch = "reply@530" => ResultReplies # {}
        /\ (branch = "failed@540" /\ chat_type \in {"group", "supergroup"}) =>
              ErrorNotices # {}
        /\ (\A a \in AckSends : ~calls[a].ok) => AckDeletes = {}
        /\ (\E a \in AckSends : calls[a].ok) =>
              \E d \in AckDeletes :
                 /\ \A q \in Posts : q < d
                 /\ \A r \in ResultReplies \cup ErrorNotices : d < r

\* the notice was sent, its deletion failed and the result was sent after it
C23_Witness ==
    /\ pc = "done"
    /\ \E a \in AckSends : calls[a].ok
    /\ \E d \in AckDeletes : ~calls[d].ok /\ \E r \in ResultReplies : d < r /\ calls[r].ok
    /\ branch = "reply@530"

-----------------------------------------------------------------------------
(* Further properties of the translation client (SpecClient) *)

\* s starts with sub
IsPrefix(sub, s) == Len(sub) <= Len(s) /\ SubSeq(s, 1, Len(sub)) = sub

\* the call at hand was answered with a completion
Completed == t_pc = "returned" /\ ~IsFailure(t_resp) /\ t_out.posts = 1

\* C24: a completion that begins with a character of its text (not a quote,
\* not one of the markers) is returned with its content intact, only white
\* space and quotes around it trimmed, also when a marker occurs later in it.
C24_MarkerCutOnlyAsPrefix ==
    Completed =>
        LET content == Strip(t_resp.content)
        IN  (/\ content # <<>>
             /\ content[1] \notin {DQUOTE, SQUOTE}
             /\ \A i \in 1..Len(markers) : ~IsPrefix(markers[i], content)) =>
                t_out.ret = Some(Strip(StripChars(content, {DQUOTE, SQUOTE})))

-----------------------------------------------------------------------------
(* The empty translation (Spec) *)

\* C26: a call that was answered and returned the empty text is handled like
\* a failed one: the handler ends in Failed, sends no result reply, and sends
\* the error notice in a group or supergroup and not in a private chat; no
\* result reply ever carries an empty translation.
C26_EmptyTranslationIsFailure ==
    /\ \A i \in ResultReplies : calls[i].payload[2] # <<>>
    /\ (pc = "done" /\ Posts # {} /\ translated = Some(<<>>)) =>
          /\ PipelineState = "Failed"
          /\ ResultReplies = {}
          /\ chat_type \in {"group", "supergroup"} => Cardinality(ErrorNotices) = 1
          /\ chat_type = "private" => ErrorNotices = {}

\* the API answered a group message with a completion that cleans to nothing
C26_Witness ==
    /\ pc = "done"
    /\ Posts # {}
    /\ translated = Some(<<>>)
    /\ chat_type = "supergroup"
    /\ ErrorNotices # {}

====
